---- MODULE Spec2Model ----
(***************************************************************************)
(* A model of UBuild-SingleFile (src/index.ts): the identifier namespacer  *)
(* (transformHTML, transformCSS, transformJavaScript), the script          *)
(* extraction / entry synthesis / output assembly done by buildPage, and   *)
(* the page orchestration of main with the files it creates and removes.   *)
(*                                                                         *)
(* Text is a sequence of one-character strings.  Every regular expression  *)
(* of the source is a matcher  M(s, i)  giving, for a match that starts at *)
(* position i of s, the position after the match and the replacement text. *)
(***************************************************************************)
EXTENDS Integers, Sequences, FiniteSets, TLC

\* ------------------------------------------------------------------ text

Min(S) == CHOOSE x \in S : \A y \in S : x <= y
Max(S) == CHOOSE x \in S : \A y \in S : x >= y

LowerSeq == <<"a","b","c","d","e","f","g","h","i","j","k","l","m",
              "n","o","p","q","r","s","t","u","v","w","x","y","z">>
UpperSeq == <<"A","B","C","D","E","F","G","H","I","J","K","L","M",
              "N","O","P","Q","R","S","T","U","V","W","X","Y","Z">>
Lower   == {LowerSeq[k] : k \in 1..26}
Upper   == {UpperSeq[k] : k \in 1..26}
Digits  == {"0","1","2","3","4","5","6","7","8","9"}
Letters == Lower \cup Upper
\* \w of a regular expression
WordCh  == Letters \cup Digits \cup {"_"}
\* \s of a regular expression (the members that occur in the inputs)
WS      == {" ", "\t", "\n", "\r"}
\* the line terminators after which ^ matches under the m flag
LineEnd == {"\n", "\r"}
Quote   == {"\"", "'"}

\* c folded to lower case (the i flag)
Lc(c) == IF c \in Upper THEN LowerSeq[CHOOSE k \in 1..26 : UpperSeq[k] = c] ELSE c

\* s[a..b-1]
Slice(s, a, b) == [k \in 1..(b - a) |-> s[a + k - 1]]

\* the text p stands at position i of s
HasAt(s, i, p) ==
    /\ i >= 1
    /\ i + Len(p) - 1 <= Len(s)
    /\ \A k \in 1..Len(p) : s[i + k - 1] = p[k]

\* the same, ignoring case
HasAtCI(s, i, p) ==
    /\ i >= 1
    /\ i + Len(p) - 1 <= Len(s)
    /\ \A k \in 1..Len(p) : Lc(s[i + k - 1]) = Lc(p[k])

\* String.prototype.startsWith
StartsWith(s, p) == HasAt(s, 1, p)

\* the first position >= i holding a character outside C (Len(s)+1 if none):
\* where a greedy [C]* that starts at i stops
SkipIn(s, i, C) ==
    LET out == {j \in i..Len(s) : s[j] \notin C}
    IN  IF out = {} THEN Len(s) + 1 ELSE Min(out)

\* the first position >= i holding a character of C (Len(s)+1 if none):
\* where a greedy [^C]* that starts at i stops
SkipTo(s, i, C) ==
    LET hit == {j \in i..Len(s) : s[j] \in C}
    IN  IF hit = {} THEN Len(s) + 1 ELSE Min(hit)

\* the first position >= i where p stands, 0 if none (String.prototype.indexOf)
Find(s, i, p) ==
    LET hit == {j \in i..(Len(s) - Len(p) + 1) : HasAt(s, j, p)}
    IN  IF hit = {} THEN 0 ELSE Min(hit)

\* String.prototype.includes
Includes(s, p) == Find(s, 1, p) > 0

NoMatch == [end |-> 0, rep |-> <<>>]
Match(e, r) == [end |-> e, rep |-> r]

\* String.prototype.replace with a g-flagged expression: scan from the left,
\* replace every match, resume after it (no expression of the source matches
\* the empty text)
ReplaceAll(M(_, _), s) ==
    LET n == Len(s)
        \* the scan from position p[1] up to (not including) p[2]: the text it
        \* puts out and the position it resumes at (halved, to keep it shallow)
        scan[p \in (1..(n + 1)) \X (1..(n + 1))] ==
            LET i == p[1]
                h == p[2]
            IN  IF i >= h THEN [out |-> <<>>, pos |-> i]
                ELSE IF h = i + 1
                THEN LET m == M(s, i)
                     IN  IF m.end > 0 THEN [out |-> m.rep, pos |-> m.end]
                                      ELSE [out |-> <<s[i]>>, pos |-> i + 1]
                ELSE LET l == scan[<<i, (i + h) \div 2>>]
                         r == scan[<<l.pos, h>>]
                     IN  [out |-> l.out \o r.out, pos |-> r.pos]
    IN  scan[<<1, n + 1>>].out

\* String.prototype.replace without the g flag: the leftmost match only
ReplaceFirst(M(_, _), s) ==
    LET n   == Len(s)
        hit == {i \in 1..n : M(s, i).end > 0}
    IN  IF hit = {} THEN s
        ELSE LET i == Min(hit)
                 m == M(s, i)
             IN  Slice(s, 1, i) \o m.rep \o Slice(s, m.end, n + 1)

\* statements run one after another: the text s of one statement is there in
\* full before the next statement F starts on it
Pass(s, F(_)) == IF Len(s) >= 0 THEN F(s) ELSE s

\* String.prototype.trim
Trim(s) ==
    LET ink == {j \in 1..Len(s) : s[j] \notin WS}
    IN  IF ink = {} THEN <<>> ELSE Slice(s, Min(ink), Max(ink) + 1)

\* String.prototype.split(/\s+/): the pieces between the runs of white space
\* (an empty piece before a leading run and after a trailing run)
RECURSIVE SplitWS(_)
SplitWS(s) ==
    LET j == SkipTo(s, 1, WS)
    IN  IF j > Len(s) THEN <<s>>
        ELSE <<Slice(s, 1, j)>> \o SplitWS(Slice(s, SkipIn(s, j, WS), Len(s) + 1))

\* Array.prototype.join
RECURSIVE Join(_, _)
Join(parts, sep) ==
    IF parts = <<>> THEN <<>>
    ELSE IF Len(parts) = 1 THEN parts[1]
    ELSE parts[1] \o sep \o Join(Tail(parts), sep)

RECURSIVE Flatten(_)
Flatten(parts) == IF parts = <<>> THEN <<>> ELSE parts[1] \o Flatten(Tail(parts))

\* ------------------------------------------------------- the global tags

globalTags ==
    << <<"b","o","d","y">>,
       <<"h","1">>,
       <<"h","2">>,
       <<"h","3">>,
       <<"h","4">>,
       <<"h","5">>,
       <<"h","6">>,
       <<"p">>,
       <<"a">>,
       <<"s","p","a","n">>,
       <<"d","i","v">>,
       <<"t","a","b","l","e">>,
       <<"t","h","e","a","d">>,
       <<"t","b","o","d","y">>,
       <<"t","r">>,
       <<"t","d">>,
       <<"t","h">>,
       <<"b","u","t","t","o","n">>,
       <<"i","n","p","u","t">>,
       <<"f","o","r","m">>,
       <<"l","a","b","e","l">>,
       <<"u","l">>,
       <<"o","l">>,
       <<"l","i">> >>

\* ---------------------------------------------------------- transformCSS

\* ^ under the m flag
AtLineStart(s, i) == i = 1 \/ s[i - 1] \in LineEnd

\* the tail  TAG\s*([{:,])  of standaloneRegex at position k
StandaloneTail(ns, tag, s, k, lead) ==
    IF ~HasAt(s, k, tag) THEN NoMatch
    ELSE LET j == SkipIn(s, k + Len(tag), WS)
         IN  IF j <= Len(s) /\ s[j] \in {"{", ":", ","}
             THEN Match(j + 1, lead \o <<".">> \o ns \o tag \o <<s[j]>>)
             ELSE NoMatch

\* (^|[,\s])TAG\s*([{:,])  replaced by  $1.<ns>TAG$2
standaloneRegex(ns, tag, s, i) ==
    LET viaStart == IF AtLineStart(s, i) THEN StandaloneTail(ns, tag, s, i, <<>>)
                    ELSE NoMatch
    IN  IF viaStart.end > 0 THEN viaStart
        ELSE IF s[i] \in WS \cup {","}
             THEN StandaloneTail(ns, tag, s, i + 1, <<s[i]>>)
             ELSE NoMatch

\* the tail  TAG(::?[a-z-]+)  of pseudoRegex at position k
PseudoTail(ns, tag, s, k, lead) ==
    LET c == k + Len(tag)
    IN  IF ~(HasAt(s, k, tag) /\ c <= Len(s) /\ s[c] = ":") THEN NoMatch
        ELSE LET n == IF c + 1 <= Len(s) /\ s[c + 1] = ":" THEN c + 2 ELSE c + 1
                 e == SkipIn(s, n, Lower \cup {"-"})
             IN  IF e > n
                 THEN Match(e, lead \o <<".">> \o ns \o tag \o Slice(s, c, e))
                 ELSE NoMatch

\* (^|[,\s])TAG(::?[a-z-]+)  replaced by  $1.<ns>TAG$2
pseudoRegex(ns, tag, s, i) ==
    LET viaStart == IF AtLineStart(s, i) THEN PseudoTail(ns, tag, s, i, <<>>)
                    ELSE NoMatch
    IN  IF viaStart.end > 0 THEN viaStart
        ELSE IF s[i] \in WS \cup {","}
             THEN PseudoTail(ns, tag, s, i + 1, <<s[i]>>)
             ELSE NoMatch

\* NAMESPACE.replace(/^\./, '')
StripDot(ns) == IF Len(ns) > 0 /\ ns[1] = "." THEN Tail(ns) ELSE ns

\* the same expression with a callback that lacks the "already prefixed" test
cssClassRegex_AlwaysPrefixes(ns, s, i) ==
    IF ~(s[i] = "." /\ i + 1 <= Len(s) /\ s[i + 1] \in Letters) THEN NoMatch
    ELSE LET e         == SkipIn(s, i + 2, WordCh \cup {"-"})
             className == Slice(s, i + 1, e)
         IN  Match(e, <<".">> \o ns \o className)

\* \.([a-zA-Z][\w-]*)  with the callback of transformCSS
cssClassRegex(ns, s, i) ==
    IF ~(s[i] = "." /\ i + 1 <= Len(s) /\ s[i + 1] \in Letters) THEN NoMatch
    ELSE LET e         == SkipIn(s, i + 2, WordCh \cup {"-"})
             className == Slice(s, i + 1, e)
         IN  IF StartsWith(className, StripDot(ns))
             THEN Match(e, Slice(s, i, e))
             ELSE Match(e, <<".">> \o ns \o className)

\* one round of globalTags.forEach in transformCSS
cssTagStep(ns, tag, s) ==
    LET first == ReplaceAll(LAMBDA x, i : standaloneRegex(ns, tag, x, i), s)
    IN  Pass(first, LAMBDA txt :
            ReplaceAll(LAMBDA x, i : pseudoRegex(ns, tag, x, i), txt))

\* globalTags.forEach of transformCSS over the tags lo..hi, in order; the text
\* of the first half is computed before the second half starts on it
RECURSIVE cssTags(_, _, _, _)
cssTags(ns, lo, hi, s) ==
    IF lo = hi THEN cssTagStep(ns, globalTags[lo], s)
    ELSE LET mid  == (lo + hi) \div 2
             half == cssTags(ns, lo, mid, s)
         IN  Pass(half, LAMBDA txt : cssTags(ns, mid + 1, hi, txt))

transformCSS(ns, cssContent) ==
    LET tagged == cssTags(ns, 1, Len(globalTags), cssContent)
    IN  Pass(tagged, LAMBDA txt :
            ReplaceAll(LAMBDA x, i : cssClassRegex(ns, x, i), txt))

\* --------------------------------------------------------- transformHTML

s_id    == <<"i","d","=">>
s_class == <<"c","l","a","s","s","=">>
GT      == {">"}

\* id=["']([^"']+)["']  with the callback of transformHTML
htmlIdRegex(ns, s, i) ==
    LET v == i + Len(s_id) + 1
    IN  IF ~(HasAt(s, i, s_id) /\ v - 1 <= Len(s) /\ s[v - 1] \in Quote) THEN NoMatch
        ELSE LET e  == SkipTo(s, v, Quote)
                 id == Slice(s, v, e)
             IN  IF ~(e > v /\ e <= Len(s)) THEN NoMatch
                 ELSE IF StartsWith(id, ns) THEN Match(e + 1, Slice(s, i, e + 1))
                 ELSE Match(e + 1, s_id \o <<"\"">> \o ns \o id \o <<"\"">>)

\* the map callback of the class rewrite: a token gets the prefix unless it
\* is empty or already starts with it
prefixClass(ns, cls) == IF cls = <<>> \/ StartsWith(cls, ns) THEN cls ELSE ns \o cls

\* class=["']([^"']+)["']  with the callback of transformHTML
htmlClassRegex(ns, s, i) ==
    LET v == i + Len(s_class) + 1
    IN  IF ~(HasAt(s, i, s_class) /\ v - 1 <= Len(s) /\ s[v - 1] \in Quote) THEN NoMatch
        ELSE LET e == SkipTo(s, v, Quote)
             IN  IF ~(e > v /\ e <= Len(s)) THEN NoMatch
                 ELSE LET classes == SplitWS(Slice(s, v, e))
                          unique  == [k \in 1..Len(classes) |-> prefixClass(ns, classes[k])]
                      IN  Match(e + 1, s_class \o <<"\"">> \o Join(unique, <<" ">>) \o <<"\"">>)

\* <TAG(?![^>]*class=)([^>]*)>  under the i flag, with its callback
noClassRegex(ns, tag, s, i) ==
    LET k == i + 1 + Len(tag)
        g == SkipTo(s, k, GT)
    IN  IF ~HasAtCI(s, i, <<"<">> \o tag) THEN NoMatch
        ELSE IF g > Len(s) THEN NoMatch
        ELSE IF \E j \in k..(g - 1) : HasAtCI(s, j, s_class) THEN NoMatch
        ELSE Match(g + 1, <<"<">> \o tag \o Slice(s, k, g) \o <<" ">> \o s_class
                          \o <<"\"">> \o ns \o tag \o <<"\"", ">">>)

\* <TAG([^>]*?)class=["']([^"']*?)["']  under the i flag, with its callback
withClassRegex(ns, tag, s, i) ==
    LET k    == i + 1 + Len(tag)
        g    == SkipTo(s, k, GT)
        cand == {j \in k..(g - 1) :
                    /\ HasAtCI(s, j, s_class)
                    /\ j + 6 <= Len(s)
                    /\ s[j + 6] \in Quote
                    /\ SkipTo(s, j + 7, Quote) <= Len(s)}
    IN  IF ~HasAtCI(s, i, <<"<">> \o tag) \/ cand = {} THEN NoMatch
        ELSE LET j        == Min(cand)
                 q        == SkipTo(s, j + 7, Quote)
                 existing == Slice(s, j + 7, q)
                 classes  == SplitWS(existing)
                 tagClass == ns \o tag
             IN  IF /\ \A c \in 1..Len(classes) : classes[c] # tagClass
                    /\ \A c \in 1..Len(classes) : ~StartsWith(classes[c], ns)
                 THEN Match(q + 1, <<"<">> \o tag \o Slice(s, k, j) \o s_class \o <<"\"">>
                                   \o tagClass \o <<" ">> \o existing \o <<"\"">>)
                 ELSE Match(q + 1, Slice(s, i, q + 1))

\* one round of globalTags.forEach in transformHTML
htmlTagStep(ns, tag, s) ==
    LET first == ReplaceAll(LAMBDA x, i : noClassRegex(ns, tag, x, i), s)
    IN  Pass(first, LAMBDA txt :
            ReplaceAll(LAMBDA x, i : withClassRegex(ns, tag, x, i), txt))

\* globalTags.forEach of transformHTML over the tags lo..hi, in order
RECURSIVE htmlTags(_, _, _, _)
htmlTags(ns, lo, hi, s) ==
    IF lo = hi THEN htmlTagStep(ns, globalTags[lo], s)
    ELSE LET mid  == (lo + hi) \div 2
             half == htmlTags(ns, lo, mid, s)
         IN  Pass(half, LAMBDA txt : htmlTags(ns, mid + 1, hi, txt))

transformHTML(ns, htmlContent) ==
    LET ids     == ReplaceAll(LAMBDA x, i : htmlIdRegex(ns, x, i), htmlContent)
        classes == Pass(ids, LAMBDA txt :
                       ReplaceAll(LAMBDA x, i : htmlClassRegex(ns, x, i), txt))
    IN  Pass(classes, LAMBDA txt : htmlTags(ns, 1, Len(globalTags), txt))

\* --------------------------------------------------- transformJavaScript

s_getElementById   == <<"g","e","t","E","l","e","m","e","n","t","B","y","I","d">>
s_querySelector    == <<"q","u","e","r","y","S","e","l","e","c","t","o","r">>
s_All              == <<"A","l","l">>
s_querySelectorAll == s_querySelector \o s_All
s_classList        == <<"c","l","a","s","s","L","i","s","t",".">>
s_add              == <<"a","d","d">>
s_remove           == <<"r","e","m","o","v","e">>
s_toggle           == <<"t","o","g","g","l","e">>
s_contains         == <<"c","o","n","t","a","i","n","s">>

NoArg == [end |-> 0, arg |-> <<>>]

\* the common tail of the five expressions, from position p on:
\*   \s*\(\s*["'] lead ([^stop]+)["']\s*\)
\* the position after it and the captured argument
CallArg(s, p, lead, stop) ==
    LET a == SkipIn(s, p, WS)
        b == SkipIn(s, a + 1, WS)
        v == b + 1 + Len(lead)
        e == SkipTo(s, v, stop)
        c == SkipIn(s, e + 1, WS)
    IN  IF ~(a <= Len(s) /\ s[a] = "(") THEN NoArg
        ELSE IF ~(b <= Len(s) /\ s[b] \in Quote /\ HasAt(s, b + 1, lead)) THEN NoArg
        ELSE IF ~(e > v /\ e <= Len(s) /\ s[e] \in Quote) THEN NoArg
        ELSE IF ~(c <= Len(s) /\ s[c] = ")") THEN NoArg
        ELSE [end |-> c + 1, arg |-> Slice(s, v, e)]

\* the replacement  name('<lead><ns><arg>')  unless arg starts with ns
Renamed(ns, s, i, m, name, lead) ==
    IF m.end = 0 THEN NoMatch
    ELSE IF StartsWith(m.arg, ns) THEN Match(m.end, Slice(s, i, m.end))
    ELSE Match(m.end, name \o <<"(", "'">> \o lead \o ns \o m.arg \o <<"'", ")">>)

\* getElementById\s*\(\s*["']([^"']+)["']\s*\)
getElementByIdRegex(ns, s, i) ==
    IF ~HasAt(s, i, s_getElementById) THEN NoMatch
    ELSE Renamed(ns, s, i, CallArg(s, i + Len(s_getElementById), <<>>, Quote),
                 s_getElementById, <<>>)

\* querySelector\s*\(\s*["']#([^"'\s]+)["']\s*\)
querySelectorIdRegex(ns, s, i) ==
    IF ~HasAt(s, i, s_querySelector) THEN NoMatch
    ELSE Renamed(ns, s, i, CallArg(s, i + Len(s_querySelector), <<"#">>, Quote \cup WS),
                 s_querySelector, <<"#">>)

\* querySelectorAll\s*\(\s*["']#([^"'\s]+)["']\s*\)
querySelectorAllIdRegex(ns, s, i) ==
    IF ~HasAt(s, i, s_querySelectorAll) THEN NoMatch
    ELSE Renamed(ns, s, i, CallArg(s, i + Len(s_querySelectorAll), <<"#">>, Quote \cup WS),
                 s_querySelectorAll, <<"#">>)

\* querySelector(All)?\s*\(\s*["']\.([^"'\s.]+)["']\s*\)
querySelectorClassRegex(ns, s, i) ==
    IF ~HasAt(s, i, s_querySelector) THEN NoMatch
    ELSE LET all    == HasAt(s, i + Len(s_querySelector), s_All)
             method == IF all THEN s_querySelectorAll ELSE s_querySelector
         IN  Renamed(ns, s, i,
                     CallArg(s, i + Len(method), <<".">>, Quote \cup WS \cup {"."}),
                     method, <<".">>)

\* classList\.(add|remove|toggle|contains)\s*\(\s*["']([^"']+)["']\s*\)
classListRegex(ns, s, i) ==
    LET p  == i + Len(s_classList)
        ms == {m \in {s_add, s_remove, s_toggle, s_contains} : HasAt(s, p, m)}
    IN  IF ~HasAt(s, i, s_classList) \/ ms = {} THEN NoMatch
        ELSE LET method == CHOOSE m \in ms : TRUE
             IN  Renamed(ns, s, i, CallArg(s, p + Len(method), <<>>, Quote),
                         s_classList \o method, <<>>)

transformJavaScript(ns, jsContent) ==
    LET byId   == ReplaceAll(LAMBDA x, i : getElementByIdRegex(ns, x, i), jsContent)
        qsId   == Pass(byId, LAMBDA txt :
                      ReplaceAll(LAMBDA x, i : querySelectorIdRegex(ns, x, i), txt))
        qsaId  == Pass(qsId, LAMBDA txt :
                      ReplaceAll(LAMBDA x, i : querySelectorAllIdRegex(ns, x, i), txt))
        qsCls  == Pass(qsaId, LAMBDA txt :
                      ReplaceAll(LAMBDA x, i : querySelectorClassRegex(ns, x, i), txt))
    IN  Pass(qsCls, LAMBDA txt :
            ReplaceAll(LAMBDA x, i : classListRegex(ns, x, i), txt))

\* ------------------------------------------------- buildPage: the scripts

s_script    == <<"<","s","c","r","i","p","t">>
s_endscript == <<"<","/","s","c","r","i","p","t",">">>
s_type      == <<"t","y","p","e","=">>
s_module    == <<"m","o","d","u","l","e">>
s_src       == <<"s","r","c","=">>

\* ReplaceAll that keeps only what the matches give: the captures of a
\* while ((match = regex.exec(text)) !== null) loop, in the order of the text
CollectAll(M(_, _), s) ==
    LET n == Len(s)
        scan[p \in (1..(n + 1)) \X (1..(n + 1))] ==
            LET i == p[1]
                h == p[2]
            IN  IF i >= h THEN [out |-> <<>>, pos |-> i]
                ELSE IF h = i + 1
                THEN LET m == M(s, i)
                     IN  IF m.end > 0 THEN [out |-> m.rep, pos |-> m.end]
                                      ELSE [out |-> <<>>, pos |-> i + 1]
                ELSE LET l == scan[<<i, (i + h) \div 2>>]
                         r == scan[<<l.pos, h>>]
                     IN  [out |-> l.out \o r.out, pos |-> r.pos]
    IN  scan[<<1, n + 1>>].out

\* type=["']module["']  at position j
TypeModuleAt(s, j) ==
    /\ HasAt(s, j, s_type)
    /\ j + 12 <= Len(s)
    /\ s[j + 5] \in Quote
    /\ HasAt(s, j + 6, s_module)
    /\ s[j + 12] \in Quote

\* the opening tag  <script[^>]*type=["']module["'][^>]*>  at position i: the
\* position of its > (0 if the tag does not match)
ModuleTagEnd(s, i) ==
    LET k == i + Len(s_script)
        g == SkipTo(s, k, GT)
    IN  IF /\ HasAt(s, i, s_script)
           /\ g <= Len(s)
           /\ \E j \in k..(g - 1) : TypeModuleAt(s, j)
        THEN g ELSE 0

\* the opening tag  <script(?![^>]*type=["']module["'])[^>]*>  at position i
ClassicTagEnd(s, i) ==
    LET k == i + Len(s_script)
        g == SkipTo(s, k, GT)
    IN  IF /\ HasAt(s, i, s_script)
           /\ g <= Len(s)
           /\ ~\E j \in k..(g - 1) : TypeModuleAt(s, j)
        THEN g ELSE 0

\* the opening tag  <script[^>]*>  at position i
AnyTagEnd(s, i) ==
    LET g == SkipTo(s, i + Len(s_script), GT)
    IN  IF HasAt(s, i, s_script) /\ g <= Len(s) THEN g ELSE 0

\* <script[^>]*type=["']module["'][^>]*src=["']([^"']+)["'][^>]*><\/script>
\* the greedy [^>]* take the last type= and then the last src= that let the
\* rest match; the capture is the value of that src
moduleScriptRegex(s, i) ==
    LET k   == i + Len(s_script)
        g1  == SkipTo(s, k, GT)
        \* what follows src=, from position js on: the value and the tag's end
        val(js) == LET v == js + Len(s_src) + 1
                       e == SkipTo(s, v, Quote)
                       g == SkipTo(s, e + 1, GT)
                   IN  [ok  |-> /\ HasAt(s, js, s_src)
                                /\ v - 1 <= Len(s)
                                /\ s[v - 1] \in Quote
                                /\ e > v
                                /\ e <= Len(s)
                                /\ g <= Len(s)
                                /\ HasAt(s, g + 1, s_endscript),
                        src |-> Slice(s, v, e),
                        end |-> g + 1 + Len(s_endscript)]
        srcs(jt) == {js \in (jt + 13)..SkipTo(s, jt + 13, GT) : val(js).ok}
        types    == {jt \in k..(g1 - 1) : TypeModuleAt(s, jt) /\ srcs(jt) # {}}
    IN  IF ~HasAt(s, i, s_script) \/ types = {} THEN NoMatch
        ELSE LET m == val(Max(srcs(Max(types))))
             IN  Match(m.end, <<m.src>>)

\* <script[^>]*type=["']module["'][^>]*>([\s\S]*?)<\/script>  with the body of
\* its loop: the script is kept unless its text includes src= or its body is empty
inlineModuleRegex(ns, s, i) ==
    LET g == ModuleTagEnd(s, i)
        c == Find(s, g + 1, s_endscript)
    IN  IF g = 0 \/ c = 0 THEN NoMatch
        ELSE LET full          == Slice(s, i, c + Len(s_endscript))
                 inlineContent == Slice(s, g + 1, c)
             IN  IF ~Includes(full, s_src) /\ inlineContent # <<>>
                 THEN Match(c + Len(s_endscript),
                            <<transformJavaScript(ns, Trim(inlineContent))>>)
                 ELSE Match(c + Len(s_endscript), <<>>)

\* <script(?![^>]*type=["']module["'])[^>]*>([\s\S]*?)<\/script>  with the body
\* of its loop
inlineScriptRegex(ns, s, i) ==
    LET g == ClassicTagEnd(s, i)
        c == Find(s, g + 1, s_endscript)
    IN  IF g = 0 \/ c = 0 THEN NoMatch
        ELSE LET fullMatch  == Slice(s, i, c + Len(s_endscript))
                 scriptBody == Slice(s, g + 1, c)
             IN  IF ~Includes(fullMatch, s_src) /\ Trim(scriptBody) # <<>>
                 THEN Match(c + Len(s_endscript),
                            <<transformJavaScript(ns, Trim(scriptBody))>>)
                 ELSE Match(c + Len(s_endscript), <<>>)

\* path.join / path.resolve on POSIX paths: the segments of the joined path
\* with "" and "." dropped and ".." taking back one segment
RECURSIVE SplitPath(_)
SplitPath(p) ==
    LET j == SkipTo(p, 1, {"/"})
    IN  IF j > Len(p) THEN <<p>>
        ELSE <<Slice(p, 1, j)>> \o SplitPath(Slice(p, j + 1, Len(p) + 1))

RECURSIVE NormSegs(_, _)
NormSegs(segs, acc) ==
    IF segs = <<>> THEN acc
    ELSE LET h == Head(segs)
         IN  IF h = <<>> \/ h = <<".">> THEN NormSegs(Tail(segs), acc)
             ELSE IF h = <<".", ".">>
             THEN NormSegs(Tail(segs), IF acc = <<>> THEN acc ELSE SubSeq(acc, 1, Len(acc) - 1))
             ELSE NormSegs(Tail(segs), Append(acc, h))

\* path.resolve(path.join(dir, rel)) for an absolute dir
PathResolve(dir, rel) ==
    <<"/">> \o Join(NormSegs(SplitPath(dir \o <<"/">> \o rel), <<>>), <<"/">>)

\* the three extraction loops of buildPage
ExtractModuleImports(pageDir, htmlContent) ==
    LET srcs == CollectAll(LAMBDA x, i : moduleScriptRegex(x, i), htmlContent)
    IN  [k \in 1..Len(srcs) |-> PathResolve(pageDir, srcs[k])]

ExtractInlineModuleScripts(ns, htmlContent) ==
    CollectAll(LAMBDA x, i : inlineModuleRegex(ns, x, i), htmlContent)

ExtractInlineScripts(ns, htmlContent) ==
    CollectAll(LAMBDA x, i : inlineScriptRegex(ns, x, i), htmlContent)

\* ------------------------------------------- buildPage: the synthetic entry

s_import == <<"i","m","p","o","r","t">>
s_as     == <<"a","s">>
s_from   == <<"f","r","o","m">>

\* import\s+(?:{[^}]+}|\*\s+as\s+\w+|\w+)\s+from\s+['"](.+?)['"]  with its
\* callback: a specifier that starts with "." is replaced, at its first
\* occurrence in the match, by its absolute path
importRegex(pageDir, s, i) ==
    LET a  == SkipIn(s, i + Len(s_import), WS)
        \* the position after the clause (?:{[^}]+}|\*\s+as\s+\w+|\w+), 0 if none
        clause ==
            IF a > Len(s) THEN 0
            ELSE IF s[a] = "{"
            THEN LET b == SkipTo(s, a + 1, {"}"})
                 IN  IF b > a + 1 /\ b <= Len(s) THEN b + 1 ELSE 0
            ELSE IF s[a] = "*"
            THEN LET w  == SkipIn(s, a + 1, WS)
                     w2 == SkipIn(s, w + Len(s_as), WS)
                     e  == SkipIn(s, w2, WordCh)
                 IN  IF w > a + 1 /\ HasAt(s, w, s_as) /\ w2 > w + Len(s_as) /\ e > w2
                     THEN e ELSE 0
            ELSE LET e == SkipIn(s, a, WordCh)
                 IN  IF e > a THEN e ELSE 0
        f  == SkipIn(s, clause, WS)
        h  == SkipIn(s, f + Len(s_from), WS)
        e2 == SkipTo(s, h + 2, Quote)
    IN  IF ~(HasAt(s, i, s_import) /\ a > i + Len(s_import) /\ clause > 0) THEN NoMatch
        ELSE IF ~(f > clause /\ HasAt(s, f, s_from) /\ h > f + Len(s_from)) THEN NoMatch
        ELSE IF ~(h <= Len(s) /\ s[h] \in Quote /\ e2 <= Len(s)) THEN NoMatch
        ELSE IF \E k \in (h + 1)..(e2 - 1) : s[k] \in LineEnd THEN NoMatch
        ELSE LET match      == Slice(s, i, e2 + 1)
                 importPath == Slice(s, h + 1, e2)
                 at         == Find(match, 1, importPath)
             IN  IF StartsWith(importPath, <<".">>)
                 THEN Match(e2 + 1, Slice(match, 1, at) \o PathResolve(pageDir, importPath)
                                    \o Slice(match, at + Len(importPath), Len(match) + 1))
                 ELSE Match(e2 + 1, match)

\* the entry text of buildPage from the three extracted sequences
SynthesizeEntry(pageDir, moduleImports, inlineModuleScripts, inlineScripts) ==
    LET exports ==
            IF moduleImports = <<>> THEN <<>>
            ELSE Flatten([k \in 1..Len(moduleImports) |->
                            <<"e","x","p","o","r","t"," ","*"," ","f","r","o","m"," ","'">> \o moduleImports[k] \o <<"'",";","\n">>])
                 \o <<"\n">>
        modules ==
            IF inlineModuleScripts = <<>> THEN <<>>
            ELSE <<"/","/"," ","I","n","l","i","n","e"," ","m","o","d","u","l","e"," ","s","c","r","i","p","t","s","\n">>
                 \o Flatten([k \in 1..Len(inlineModuleScripts) |->
                       ReplaceAll(LAMBDA x, i : importRegex(pageDir, x, i),
                                  inlineModuleScripts[k]) \o <<"\n","\n">>])
        classic ==
            IF inlineScripts = <<>> THEN <<>>
            ELSE <<"/","/"," ","R","e","g","u","l","a","r"," ","i","n","l","i","n","e"," ","s","c","r","i","p","t","s"," ","(","w","r","a","p","p","e","d"," ","t","o"," ","r","u","n"," ","a","f","t","e","r"," ","m","o","d","u","l","e","s",")","\n">>
                 \o <<"(","f","u","n","c","t","i","o","n","(",")"," ","{","\n">>
                 \o Join(inlineScripts, <<"\n","\n">>)
                 \o <<"\n","}",")","(",")",";","\n">>
    IN  exports \o modules \o classic

\* ------------------------------------------ buildPage: the output assembly

s_link       == <<"<","l","i","n","k">>
s_rel        == <<"r","e","l","=">>
s_stylesheet == <<"s","t","y","l","e","s","h","e","e","t">>
s_href       == <<"h","r","e","f","=">>
s_indexcss   == <<"i","n","d","e","x",".","c","s","s">>
s_endbody    == <<"<","/","b","o","d","y",">">>
s_bundleRef  == <<"<","s","c","r","i","p","t"," ","s","r","c","=","\"","b","u","n","d","l","e",".","j","s","\"",">","<","/","s","c","r","i","p","t",">">>

\* the grave accent (U+0060), which a string of this notation cannot hold
Grave == "grave"

\* the $-patterns of a replacement string, for an expression without groups:
\* $$ is $, $& the match, $ with a grave accent the text before it, $ with
\* an apostrophe the text after it
DollarAt(r, i, matched, before, after) ==
    IF ~(r[i] = "$" /\ i + 1 <= Len(r)) THEN NoMatch
    ELSE IF r[i + 1] = "$" THEN Match(i + 2, <<"$">>)
    ELSE IF r[i + 1] = "&" THEN Match(i + 2, matched)
    ELSE IF r[i + 1] = Grave THEN Match(i + 2, before)
    ELSE IF r[i + 1] = "'" THEN Match(i + 2, after)
    ELSE NoMatch

\* the text a replacement string r stands for at the match s[i..e-1]
Substitution(r, s, i, e) ==
    ReplaceAll(LAMBDA x, k : DollarAt(x, k, Slice(s, i, e), Slice(s, 1, i),
                                      Slice(s, e, Len(s) + 1)), r)

\* <link[^>]*rel=["']stylesheet["'][^>]*href=["'][^"']*index\.css["'][^>]*>
\* replaced by the string r
linkRegex(r, s, i) ==
    LET k  == i + Len(s_link)
        g1 == SkipTo(s, k, GT)
        relAt(j) == /\ HasAt(s, j, s_rel)
                    /\ j + 15 <= Len(s)
                    /\ s[j + 4] \in Quote
                    /\ HasAt(s, j + 5, s_stylesheet)
                    /\ s[j + 15] \in Quote
        val(jh) == LET v == jh + Len(s_href) + 1
                       e == SkipTo(s, v, Quote)
                       g == SkipTo(s, e + 1, GT)
                   IN  [ok  |-> /\ HasAt(s, jh, s_href)
                                /\ v - 1 <= Len(s)
                                /\ s[v - 1] \in Quote
                                /\ e <= Len(s)
                                /\ e - Len(s_indexcss) >= v
                                /\ HasAt(s, e - Len(s_indexcss), s_indexcss)
                                /\ g <= Len(s),
                        end |-> g + 1]
        hrefs(jr) == {jh \in (jr + 16)..SkipTo(s, jr + 16, GT) : val(jh).ok}
        rels      == {jr \in k..(g1 - 1) : relAt(jr) /\ hrefs(jr) # {}}
    IN  IF ~HasAt(s, i, s_link) \/ rels = {} THEN NoMatch
        ELSE LET e == val(Max(hrefs(Max(rels)))).end
             IN  Match(e, Substitution(r, s, i, e))

\* <script[^>]*type=["']module["'][^>]*>[\s\S]*?<\/script>  replaced by ''
removeModuleRegex(s, i) ==
    LET g == ModuleTagEnd(s, i)
        c == Find(s, g + 1, s_endscript)
    IN  IF g = 0 \/ c = 0 THEN NoMatch ELSE Match(c + Len(s_endscript), <<>>)

\* <script[^>]*>[\s\S]*?<\/script>  replaced by ''
removeScriptRegex(s, i) ==
    LET g == AnyTagEnd(s, i)
        c == Find(s, g + 1, s_endscript)
    IN  IF g = 0 \/ c = 0 THEN NoMatch ELSE Match(c + Len(s_endscript), <<>>)

\* /<\/body>/i  replaced by the bundle reference and </body>
endBodyRegex(s, i) ==
    IF HasAtCI(s, i, s_endbody)
    THEN Match(i + Len(s_endbody), <<" "," "," "," ">> \o s_bundleRef \o <<"\n","<","/","b","o","d","y",">">>)
    ELSE NoMatch

\* /<script src="bundle\.js"><\/script>/  replaced by the string r
bundleRefRegex(r, s, i) ==
    IF HasAt(s, i, s_bundleRef)
    THEN Match(i + Len(s_bundleRef), Substitution(r, s, i, i + Len(s_bundleRef)))
    ELSE NoMatch

\* the linked HTML (index.html) of buildPage; css is <<TRUE, text>> when the
\* stylesheet exists and <<FALSE, <<>> >> when it does not
LinkedHTML(ns, htmlContent, css) ==
    LET transformed == transformHTML(ns, htmlContent)
        style       == <<"<","s","t","y","l","e",">","\n">> \o transformCSS(ns, css[2])
                       \o <<"\n","<","/","s","t","y","l","e",">">>
        styled      == Pass(transformed, LAMBDA txt :
                            IF css[1]
                            THEN ReplaceAll(LAMBDA x, i : linkRegex(style, x, i), txt)
                            ELSE txt)
        noModules   == Pass(styled, LAMBDA txt :
                           ReplaceAll(LAMBDA x, i : removeModuleRegex(x, i), txt))
        noScripts   == Pass(noModules, LAMBDA txt :
                           ReplaceAll(LAMBDA x, i : removeScriptRegex(x, i), txt))
    IN  Pass(noScripts, LAMBDA txt :
            ReplaceFirst(LAMBDA x, i : endBodyRegex(x, i), txt))

\* the standalone HTML of buildPage from the linked HTML and the bundle's text
StandaloneHTML(transformedHTML, bundledJs) ==
    ReplaceFirst(LAMBDA x, i : bundleRefRegex(<<"<","s","c","r","i","p","t",">","\n">> \o bundledJs
                                              \o <<"\n","<","/","s","c","r","i","p","t",">">>, x, i),
                 transformedHTML)

VARIABLES
    \* ---- the process: main and buildPage with the files they touch
    pc,             \* the statement main / buildPage is at
    nsGiven,        \* --namespace was given
    allFlag,        \* --all was given
    htmlGiven,      \* --htmlfile was given
    htmlExists,     \* the file --htmlfile names exists
    outputGiven,    \* --output was given
    pagesOnDisk,    \* the number of page directories under src/pages
    NAMESPACE,      \* the module-level NAMESPACE
    cur,            \* the page buildPage is building (its index), 0 if none
    dirExists,      \* the output directory exists
    tempFile,       \* <output>/temp-entry.js: 0 absent, else the page that wrote it
    bundleJs,       \* <output>/bundle.js: 0 absent, else the page it was built from
    indexHtml,      \* <output>/index.html, likewise
    standaloneHtml, \* <output>/standalone.html, likewise
    tempWritten,    \* this call of buildPage has written the temp entry
    err,            \* the error buildPage is propagating ("none" if none)
    cause,          \* per page: "none" or the step that made its build fail
    attempted,      \* the pages buildPage was called for
    reported,       \* the pages main reported as failed
    produced,       \* the pages whose build returned with its three files in place
    exitCode,       \* -1 while running, then the exit status of the process
    mutated,        \* something was created or written on the file system
    \* ---- the identifier namespacer applied to a text
    which,          \* the transform: "html", "css" or "js" ("none": not in use)
    ns,             \* the namespace token
    input,          \* the text t given to the transform
    once,           \* transform(ns, t)
    twice,          \* transform(ns, transform(ns, t))
    tpc,            \* "input", then "once", then "twice" ("off": not in use)
    \* ---- buildPage working on the text of one page
    items,          \* the elements in the body of the page, in document order
    closed,         \* the page has its </body> end tag
    css,            \* ../../index.css: <<TRUE, its text>> or <<FALSE, <<>> >>
    htmlContent,    \* the text of the page
    moduleImports,          \* the paths of the external modules found
    inlineModuleScripts,    \* the inline module bodies found
    inlineScripts,          \* the inline classic script bodies found
    entryContent,   \* the text of temp-entry.js
    bundledJs,      \* the text of bundle.js
    transformedHTML,\* the text of index.html
    standaloneHTML, \* the text of standalone.html
    ppc,            \* the step buildPage is at ("off": not in use)
    \* ---- one identifier taken through the three transforms
    ident,          \* the identifier X
    renamed,        \* per place a name is written at (the text before it): the name there
    npc             \* "names", "js", "html", "css" ("off": not in use)

procVars == <<pc, nsGiven, allFlag, htmlGiven, htmlExists, outputGiven, pagesOnDisk,
              NAMESPACE, cur, dirExists, tempFile, bundleJs, indexHtml,
              standaloneHtml, tempWritten, err, cause, attempted, reported,
              produced, exitCode, mutated>>

textVars == <<which, ns, input, once, twice, tpc>>

pageVars == <<items, closed, css, htmlContent, moduleImports, inlineModuleScripts,
              inlineScripts, entryContent, bundledJs, transformedHTML,
              standaloneHTML, ppc>>

nameVars == <<ident, renamed, npc>>

vars == <<procVars, textVars, pageVars, nameVars>>

\* the namespacer is not in use
TextIdle ==
    /\ which = "none" /\ ns = <<>> /\ input = <<>>
    /\ once = <<>> /\ twice = <<>> /\ tpc = "off"

\* buildPage is not working on a page's text
PageIdle ==
    /\ items = <<>> /\ closed = FALSE /\ css = <<FALSE, <<>>>>
    /\ htmlContent = <<>> /\ moduleImports = <<>> /\ inlineModuleScripts = <<>>
    /\ inlineScripts = <<>> /\ entryContent = <<>> /\ bundledJs = <<>>
    /\ transformedHTML = <<>> /\ standaloneHTML = <<>> /\ ppc = "off"

\* no identifier is being followed
NamesIdle == ident = <<>> /\ renamed = <<>> /\ npc = "off"

\* the most page directories main discovers
MaxPages == 3

Pages == 1..MaxPages

Init ==
    /\ pc = "start"
    /\ nsGiven \in BOOLEAN
    /\ allFlag \in BOOLEAN
    /\ htmlGiven \in BOOLEAN
    /\ htmlExists \in BOOLEAN
    /\ outputGiven \in BOOLEAN
    /\ pagesOnDisk \in 0..MaxPages
    /\ NAMESPACE = "unset"
    /\ cur = 0
    /\ dirExists \in BOOLEAN
    /\ tempFile = 0
    /\ bundleJs = 0
    /\ indexHtml = 0
    /\ standaloneHtml = 0
    /\ tempWritten = FALSE
    /\ err = "none"
    /\ cause = [p \in Pages |-> "none"]
    /\ attempted = {}
    /\ reported = {}
    /\ produced = {}
    /\ exitCode = -1
    /\ mutated = FALSE
    /\ TextIdle
    /\ PageIdle
    /\ NamesIdle

\* lines 55-61: the type assertion cannot throw, so the catch with its
\* process.exit(1) is never taken; a missing --namespace leaves undefined
ReadNamespace ==
    /\ pc = "start"
    /\ NAMESPACE' = IF nsGiven THEN "given" ELSE "undefined"
    /\ pc' = "main"
    /\ UNCHANGED <<nsGiven, allFlag, htmlGiven, htmlExists, outputGiven, pagesOnDisk,
                   cur, dirExists, tempFile, bundleJs, indexHtml, standaloneHtml,
                   tempWritten, err, cause, attempted, reported, produced, exitCode,
                   mutated>>
    /\ UNCHANGED <<textVars, pageVars, nameVars>>

\* what an action of main or buildPage that only moves on leaves alone
Files == <<dirExists, tempFile, bundleJs, indexHtml, standaloneHtml, mutated>>
Args  == <<nsGiven, allFlag, htmlGiven, htmlExists, outputGiven, pagesOnDisk, NAMESPACE>>
Log   == <<cause, attempted, reported, produced>>

\* main, lines 392-401: batch mode, the pages are discovered
MainAll ==
    /\ pc = "main" /\ allFlag
    /\ pc' = "loop"
    /\ UNCHANGED <<Args, Files, Log, cur, tempWritten, err, exitCode>>
    /\ UNCHANGED <<textVars, pageVars, nameVars>>

\* main, lines 414-418: no --htmlfile
MainMissingHtml ==
    /\ pc = "main" /\ ~allFlag /\ ~htmlGiven
    /\ pc' = "exited" /\ exitCode' = 1
    /\ UNCHANGED <<Args, Files, Log, cur, tempWritten, err>>
    /\ UNCHANGED <<textVars, pageVars, nameVars>>

\* main, lines 419-423: --htmlfile names no file
MainFileNotFound ==
    /\ pc = "main" /\ ~allFlag /\ htmlGiven /\ ~htmlExists
    /\ pc' = "exited" /\ exitCode' = 1
    /\ UNCHANGED <<Args, Files, Log, cur, tempWritten, err>>
    /\ UNCHANGED <<textVars, pageVars, nameVars>>

\* main, line 424: the single page is built
MainSingle ==
    /\ pc = "main" /\ ~allFlag /\ htmlGiven /\ htmlExists
    /\ cur' = 1
    /\ pc' = "bp_begin"
    /\ UNCHANGED <<Args, Files, Log, tempWritten, err, exitCode>>
    /\ UNCHANGED <<textVars, pageVars, nameVars>>

\* main, lines 402-405: the next page of the batch
LoopNext ==
    /\ pc = "loop" /\ cur < pagesOnDisk
    /\ cur' = cur + 1
    /\ pc' = "bp_begin"
    /\ UNCHANGED <<Args, Files, Log, tempWritten, err, exitCode>>
    /\ UNCHANGED <<textVars, pageVars, nameVars>>

\* main, line 409 on: the batch is over and main returns
LoopEnd ==
    /\ pc = "loop" /\ cur = pagesOnDisk
    /\ pc' = "done" /\ exitCode' = 0
    /\ UNCHANGED <<Args, Files, Log, cur, tempWritten, err>>
    /\ UNCHANGED <<textVars, pageVars, nameVars>>

\* buildPage, lines 188-194: path.join throws on an undefined output directory
BeginPaths ==
    /\ pc = "bp_begin"
    /\ attempted' = attempted \cup {cur}
    /\ tempWritten' = FALSE
    /\ IF outputGiven THEN pc' = "bp_mkdir" /\ err' = "none"
                      ELSE pc' = "bp_throw" /\ err' = "paths"
    /\ UNCHANGED <<Args, Files, cause, reported, produced, cur, exitCode>>
    /\ UNCHANGED <<textVars, pageVars, nameVars>>

\* buildPage, lines 197-199
MkdirSkip ==
    /\ pc = "bp_mkdir" /\ dirExists
    /\ pc' = "bp_write_temp"
    /\ UNCHANGED <<Args, Files, Log, cur, tempWritten, err, exitCode>>
    /\ UNCHANGED <<textVars, pageVars, nameVars>>

MkdirOk ==
    /\ pc = "bp_mkdir" /\ ~dirExists
    /\ dirExists' = TRUE /\ mutated' = TRUE
    /\ pc' = "bp_write_temp"
    /\ UNCHANGED <<Args, Log, cur, tempFile, bundleJs, indexHtml, standaloneHtml,
                   tempWritten, err, exitCode>>
    /\ UNCHANGED <<textVars, pageVars, nameVars>>

MkdirFail ==
    /\ pc = "bp_mkdir" /\ ~dirExists
    /\ pc' = "bp_throw" /\ err' = "mkdir"
    /\ UNCHANGED <<Args, Files, Log, cur, tempWritten, exitCode>>
    /\ UNCHANGED <<textVars, pageVars, nameVars>>

\* buildPage, lines 203-283: the entry is put together and written, outside
\* the try block
WriteTempOk ==
    /\ pc = "bp_write_temp"
    /\ tempFile' = cur /\ tempWritten' = TRUE /\ mutated' = TRUE
    /\ pc' = "bp_bundle"
    /\ UNCHANGED <<Args, Log, cur, dirExists, bundleJs, indexHtml, standaloneHtml,
                   err, exitCode>>
    /\ UNCHANGED <<textVars, pageVars, nameVars>>

WriteTempFail ==
    /\ pc = "bp_write_temp"
    /\ pc' = "bp_throw" /\ err' = "writeTemp"
    /\ UNCHANGED <<Args, Files, Log, cur, tempWritten, exitCode>>
    /\ UNCHANGED <<textVars, pageVars, nameVars>>

\* buildPage, lines 286-298: esbuild writes bundle.js, or rejects and writes nothing
BundleOk ==
    /\ pc = "bp_bundle"
    /\ bundleJs' = cur /\ mutated' = TRUE
    /\ pc' = "bp_unlink"
    /\ UNCHANGED <<Args, Log, cur, dirExists, tempFile, indexHtml, standaloneHtml,
                   tempWritten, err, exitCode>>
    /\ UNCHANGED <<textVars, pageVars, nameVars>>

BundleFail ==
    /\ pc = "bp_bundle"
    /\ pc' = "bp_catch" /\ err' = "bundle"
    /\ UNCHANGED <<Args, Files, Log, cur, tempWritten, exitCode>>
    /\ UNCHANGED <<textVars, pageVars, nameVars>>

\* buildPage, line 301
UnlinkOk ==
    /\ pc = "bp_unlink"
    /\ tempFile' = 0
    /\ pc' = "bp_css"
    /\ UNCHANGED <<Args, Log, cur, dirExists, bundleJs, indexHtml, standaloneHtml,
                   mutated, tempWritten, err, exitCode>>
    /\ UNCHANGED <<textVars, pageVars, nameVars>>

UnlinkFail ==
    /\ pc = "bp_unlink"
    /\ pc' = "bp_catch" /\ err' = "unlink"
    /\ UNCHANGED <<Args, Files, Log, cur, tempWritten, exitCode>>
    /\ UNCHANGED <<textVars, pageVars, nameVars>>

\* buildPage, lines 303-333: the stylesheet is absent, or read, or its read throws
CssDone ==
    /\ pc = "bp_css"
    /\ pc' = "bp_write_html"
    /\ UNCHANGED <<Args, Files, Log, cur, tempWritten, err, exitCode>>
    /\ UNCHANGED <<textVars, pageVars, nameVars>>

CssReadFail ==
    /\ pc = "bp_css"
    /\ pc' = "bp_catch" /\ err' = "css"
    /\ UNCHANGED <<Args, Files, Log, cur, tempWritten, exitCode>>
    /\ UNCHANGED <<textVars, pageVars, nameVars>>

\* buildPage, line 336
WriteHtmlOk ==
    /\ pc = "bp_write_html"
    /\ indexHtml' = cur
    /\ pc' = "bp_read_bundle"
    /\ UNCHANGED <<Args, Log, cur, dirExists, tempFile, bundleJs, standaloneHtml,
                   mutated, tempWritten, err, exitCode>>
    /\ UNCHANGED <<textVars, pageVars, nameVars>>

WriteHtmlFail ==
    /\ pc = "bp_write_html"
    /\ pc' = "bp_catch" /\ err' = "writeHtml"
    /\ UNCHANGED <<Args, Files, Log, cur, tempWritten, exitCode>>
    /\ UNCHANGED <<textVars, pageVars, nameVars>>

\* buildPage, line 341
ReadBundleOk ==
    /\ pc = "bp_read_bundle"
    /\ pc' = "bp_write_standalone"
    /\ UNCHANGED <<Args, Files, Log, cur, tempWritten, err, exitCode>>
    /\ UNCHANGED <<textVars, pageVars, nameVars>>

ReadBundleFail ==
    /\ pc = "bp_read_bundle"
    /\ pc' = "bp_catch" /\ err' = "readBundle"
    /\ UNCHANGED <<Args, Files, Log, cur, tempWritten, exitCode>>
    /\ UNCHANGED <<textVars, pageVars, nameVars>>

\* buildPage, line 349
WriteStandaloneOk ==
    /\ pc = "bp_write_standalone"
    /\ standaloneHtml' = cur
    /\ pc' = "bp_stat"
    /\ UNCHANGED <<Args, Log, cur, dirExists, tempFile, bundleJs, indexHtml,
                   mutated, tempWritten, err, exitCode>>
    /\ UNCHANGED <<textVars, pageVars, nameVars>>

WriteStandaloneFail ==
    /\ pc = "bp_write_standalone"
    /\ pc' = "bp_catch" /\ err' = "writeStandalone"
    /\ UNCHANGED <<Args, Files, Log, cur, tempWritten, exitCode>>
    /\ UNCHANGED <<textVars, pageVars, nameVars>>

\* buildPage, lines 352-378: the sizes are read and the result returned
StatReturn ==
    /\ pc = "bp_stat"
    /\ pc' = "bp_return"
    /\ UNCHANGED <<Args, Files, Log, cur, tempWritten, err, exitCode>>
    /\ UNCHANGED <<textVars, pageVars, nameVars>>

StatFail ==
    /\ pc = "bp_stat"
    /\ pc' = "bp_catch" /\ err' = "stat"
    /\ UNCHANGED <<Args, Files, Log, cur, tempWritten, exitCode>>
    /\ UNCHANGED <<textVars, pageVars, nameVars>>

\* buildPage, lines 379-386: the handler removes the temp entry if it exists
\* and throws the error on; a removal that throws here is what propagates
CatchNoTemp ==
    /\ pc = "bp_catch" /\ tempFile = 0
    /\ pc' = "bp_throw"
    /\ UNCHANGED <<Args, Files, Log, cur, tempWritten, err, exitCode>>
    /\ UNCHANGED <<textVars, pageVars, nameVars>>

\* a handler that throws the error on without removing the temp entry
CatchUnlinkOk_NoRemoval ==
    /\ pc = "bp_catch" /\ tempFile # 0
    /\ pc' = "bp_throw"
    /\ UNCHANGED <<Args, Files, Log, cur, tempWritten, err, exitCode>>
    /\ UNCHANGED <<textVars, pageVars, nameVars>>

CatchUnlinkOk ==
    /\ pc = "bp_catch" /\ tempFile # 0
    /\ tempFile' = 0
    /\ pc' = "bp_throw"
    /\ UNCHANGED <<Args, Log, cur, dirExists, bundleJs, indexHtml, standaloneHtml,
                   mutated, tempWritten, err, exitCode>>
    /\ UNCHANGED <<textVars, pageVars, nameVars>>

CatchUnlinkFail ==
    /\ pc = "bp_catch" /\ tempFile # 0
    /\ pc' = "bp_throw" /\ err' = "unlinkInCatch"
    /\ UNCHANGED <<Args, Files, Log, cur, tempWritten, exitCode>>
    /\ UNCHANGED <<textVars, pageVars, nameVars>>

\* the three output files are in place and all come from page p
Triple(p) == bundleJs = p /\ indexHtml = p /\ standaloneHtml = p

\* main, line 405: buildPage returned to the loop
ReturnBatch ==
    /\ pc = "bp_return" /\ allFlag
    /\ produced' = IF Triple(cur) THEN produced \cup {cur} ELSE produced
    /\ pc' = "loop"
    /\ UNCHANGED <<Args, Files, cause, attempted, reported, cur, tempWritten, err,
                   exitCode>>
    /\ UNCHANGED <<textVars, pageVars, nameVars>>

\* main, line 424 on: buildPage returned, main returns, the process ends
ReturnSingle ==
    /\ pc = "bp_return" /\ ~allFlag
    /\ produced' = IF Triple(cur) THEN produced \cup {cur} ELSE produced
    /\ pc' = "done" /\ exitCode' = 0
    /\ UNCHANGED <<Args, Files, cause, attempted, reported, cur, tempWritten, err>>
    /\ UNCHANGED <<textVars, pageVars, nameVars>>

\* a loop without the try block: the failure of one page rejects main
CatchBatch_Rethrow ==
    /\ pc = "bp_throw" /\ allFlag
    /\ reported' = reported \cup {cur}
    /\ cause' = [cause EXCEPT ![cur] = err]
    /\ pc' = "exited" /\ exitCode' = 1
    /\ UNCHANGED <<Args, Files, attempted, produced, cur, tempWritten, err>>
    /\ UNCHANGED <<textVars, pageVars, nameVars>>

\* main, lines 406-408: the failure of one page is reported, the loop goes on
CatchBatch ==
    /\ pc = "bp_throw" /\ allFlag
    /\ reported' = reported \cup {cur}
    /\ cause' = [cause EXCEPT ![cur] = err]
    /\ pc' = "loop"
    /\ UNCHANGED <<Args, Files, attempted, produced, cur, tempWritten, err, exitCode>>
    /\ UNCHANGED <<textVars, pageVars, nameVars>>

\* lines 424 and 428-431: the failure rejects main; it is reported and the
\* process exits with status 1
ThrowSingle ==
    /\ pc = "bp_throw" /\ ~allFlag
    /\ reported' = reported \cup {cur}
    /\ cause' = [cause EXCEPT ![cur] = err]
    /\ pc' = "exited" /\ exitCode' = 1
    /\ UNCHANGED <<Args, Files, attempted, produced, cur, tempWritten, err>>
    /\ UNCHANGED <<textVars, pageVars, nameVars>>

Next ==
    \/ ReadNamespace
    \/ MainAll \/ MainMissingHtml \/ MainFileNotFound \/ MainSingle
    \/ LoopNext \/ LoopEnd
    \/ BeginPaths
    \/ MkdirSkip \/ MkdirOk \/ MkdirFail
    \/ WriteTempOk \/ WriteTempFail
    \/ BundleOk \/ BundleFail
    \/ UnlinkOk \/ UnlinkFail
    \/ CssDone \/ CssReadFail
    \/ WriteHtmlOk \/ WriteHtmlFail
    \/ ReadBundleOk \/ ReadBundleFail
    \/ WriteStandaloneOk \/ WriteStandaloneFail
    \/ StatReturn \/ StatFail
    \/ CatchNoTemp \/ CatchUnlinkOk \/ CatchUnlinkFail
    \/ ReturnBatch \/ ReturnSingle
    \/ CatchBatch \/ ThrowSingle

Spec == Init /\ [][Next]_vars

\* ------------------------------------------- the namespacer applied to texts

\* main and buildPage are not running
ProcIdle ==
    /\ pc = "idle"
    /\ nsGiven = TRUE /\ allFlag = FALSE /\ htmlGiven = FALSE /\ htmlExists = FALSE
    /\ outputGiven = FALSE /\ pagesOnDisk = 0 /\ NAMESPACE = "unset" /\ cur = 0
    /\ dirExists = FALSE /\ tempFile = 0 /\ bundleJs = 0 /\ indexHtml = 0
    /\ standaloneHtml = 0 /\ tempWritten = FALSE /\ err = "none"
    /\ cause = [p \in Pages |-> "none"]
    /\ attempted = {} /\ reported = {} /\ produced = {}
    /\ exitCode = -1 /\ mutated = FALSE

\* the most fragments an input text is put together from
MaxFrags == 3

\* the namespace tokens given as --namespace
Namespaces == {<<"a","c","m","e","-">>, <<"a">>}

\* the fragments the inputs of each transform are put together from
HtmlFrags == {<<"<","a">>, <<">">>, <<" ","c","l","a","s","s","=","\"","x","\"">>, <<" ","i","d","=","\"","k","\"">>, <<"<","p",">">>, <<"a","c","m","e","-">>}
CssFrags  == {<<"a">>, <<"a",",">>, <<"{">>, <<" ">>, <<".","x">>, <<":","b">>}
JsFrags   == {<<"g","e","t","E","l","e","m","e","n","t","B","y","I","d","(">>, <<"q","u","e","r","y","S","e","l","e","c","t","o","r","(">>, <<"c","l","a","s","s","L","i","s","t",".","a","d","d","(">>,
              <<"'","x","'">>, <<"'","#","x","'">>, <<"'",".","x","'">>, <<")">>}

\* the examples of the documentation
htmlExample == <<"<","d","i","v"," ","i","d","=","\"","b","o","x","\""," ","c","l","a","s","s","=","\"","c","a","r","d","\"",">","<","h","1",">","H","i","<","/","h","1",">","<","/","d","i","v",">">>
cssExample  == <<"b","o","d","y"," ","{"," ","c","o","l","o","r",":"," ","r","e","d",";"," ","}"," ",".","c","a","r","d",":","h","o","v","e","r"," ","{"," ","c","o","l","o","r",":"," ","b","l","u","e",";"," ","}">>
jsExample   == <<"d","o","c","u","m","e","n","t",".","g","e","t","E","l","e","m","e","n","t","B","y","I","d","(","'","b","o","x","'",")",".","c","l","a","s","s","L","i","s","t",".","a","d","d","(","'","c","a","r","d","'",")">>

\* every text put together from at most MaxFrags fragments of F
Texts(F) == {Flatten(fs) : fs \in UNION {[1..n -> F] : n \in 0..MaxFrags}}

Inputs(w) ==
    CASE w = "html" -> Texts(HtmlFrags) \cup {htmlExample}
      [] w = "css"  -> Texts(CssFrags) \cup {cssExample}
      [] w = "js"   -> Texts(JsFrags) \cup {jsExample}

InitText ==
    /\ ProcIdle
    /\ which \in {"html", "css", "js"}
    /\ ns \in Namespaces
    /\ input \in Inputs(which)
    /\ once = <<>> /\ twice = <<>>
    /\ tpc = "input"
    /\ PageIdle
    /\ NamesIdle

\* transformHTML(t) with NAMESPACE = ns
ApplyHTML ==
    /\ tpc = "input" /\ which = "html"
    /\ once' = transformHTML(ns, input)
    /\ tpc' = "once"
    /\ UNCHANGED <<which, ns, input, twice, procVars, pageVars, nameVars>>

\* transformCSS(t) with NAMESPACE = ns
ApplyCSS ==
    /\ tpc = "input" /\ which = "css"
    /\ once' = transformCSS(ns, input)
    /\ tpc' = "once"
    /\ UNCHANGED <<which, ns, input, twice, procVars, pageVars, nameVars>>

\* transformJavaScript(t) with NAMESPACE = ns
ApplyJS ==
    /\ tpc = "input" /\ which = "js"
    /\ once' = transformJavaScript(ns, input)
    /\ tpc' = "once"
    /\ UNCHANGED <<which, ns, input, twice, procVars, pageVars, nameVars>>

\* the same transform applied to its own output
Reapply ==
    /\ tpc = "once"
    /\ twice' = CASE which = "html" -> transformHTML(ns, once)
                  [] which = "css"  -> transformCSS(ns, once)
                  [] which = "js"   -> transformJavaScript(ns, once)
    /\ tpc' = "twice"
    /\ UNCHANGED <<which, ns, input, once, procVars, pageVars, nameVars>>

NextText == ApplyHTML \/ ApplyCSS \/ ApplyJS \/ Reapply

SpecText == InitText /\ [][NextText]_vars

\* ------------------------------------- buildPage applied to a page's text

\* the most elements in the body of a page
MaxItems == 3

\* the elements a page is put together from
Kinds == {"extModule", "extModuleSrcFirst", "inlineModule", "inlineScript",
          "inlineScriptSrcText", "extScript", "link"}

\* the start tag of an element of kind k (for the link, the whole element)
Open(k) ==
    CASE k = "extModule"           -> <<"<","s","c","r","i","p","t"," ","t","y","p","e","=","\"","m","o","d","u","l","e","\""," ","s","r","c","=","\"",".","/","m",".","j","s","\"",">">>
      [] k = "extModuleSrcFirst"   -> <<"<","s","c","r","i","p","t"," ","s","r","c","=","\"",".","/","n",".","j","s","\""," ","t","y","p","e","=","\"","m","o","d","u","l","e","\"",">">>
      [] k = "inlineModule"        -> <<"<","s","c","r","i","p","t"," ","t","y","p","e","=","\"","m","o","d","u","l","e","\"",">">>
      [] k = "inlineScript"        -> <<"<","s","c","r","i","p","t",">">>
      [] k = "inlineScriptSrcText" -> <<"<","s","c","r","i","p","t",">">>
      [] k = "extScript"           -> <<"<","s","c","r","i","p","t"," ","s","r","c","=","\"","v",".","j","s","\"",">">>
      [] k = "link"                -> <<"<","l","i","n","k"," ","r","e","l","=","\"","s","t","y","l","e","s","h","e","e","t","\""," ","h","r","e","f","=","\"",".",".","/",".",".","/","i","n","d","e","x",".","c","s","s","\"",">">>

\* the text between the start tag and the end tag of a script of kind k
Body(k) ==
    CASE k = "inlineModule"        -> <<"m","(","'","#","k","'",")">>
      [] k = "inlineScript"        -> <<" ","c","(",")"," ">>
      [] k = "inlineScriptSrcText" -> <<"i",".","s","r","c","=","u">>
      [] OTHER                     -> <<>>

IsScript(k) == k # "link"
\* the element has the attribute type="module"
IsModule(k) == k \in {"extModule", "extModuleSrcFirst", "inlineModule"}
\* the value of the element's src attribute (empty: it has none)
SrcOf(k) ==
    CASE k = "extModule"         -> <<".","/","m",".","j","s">>
      [] k = "extModuleSrcFirst" -> <<".","/","n",".","j","s">>
      [] k = "extScript"         -> <<"v",".","j","s">>
      [] OTHER                   -> <<>>

Render(k) == Open(k) \o Body(k) \o (IF IsScript(k) THEN s_endscript ELSE <<>>)

\* the text of the page whose body holds the elements its, with or without
\* its (optional) </body> end tag
PageText(its, withEnd) ==
    <<"<","b","o","d","y",">","\n">> \o Flatten([j \in 1..Len(its) |-> Render(its[j]) \o <<"\n">>])
    \o (IF withEnd THEN s_endbody ELSE <<>>)

\* path.dirname(htmlPath)
pageDir == <<"/","w","/","s","r","c","/","p","a","g","e","s","/","h","o","m","e">>

\* ../../index.css beside the pages: absent, or present with this text
Stylesheets == {<<FALSE, <<>>>>, <<TRUE, <<"p"," ","{"," ","}">>>>}

\* the texts esbuild may write to bundle.js
Bundles == {<<"b","(",")",";">>, <<"r","(","'","$","&","'",")">>}

InitPage ==
    /\ ProcIdle
    /\ which = "none" /\ input = <<>> /\ once = <<>> /\ twice = <<>> /\ tpc = "off"
    /\ ns = <<"a","c","m","e","-">>
    /\ items \in UNION {[1..n -> Kinds] : n \in 0..MaxItems}
    /\ closed \in BOOLEAN
    /\ css \in Stylesheets
    /\ NamesIdle
    /\ htmlContent = PageText(items, closed)
    /\ moduleImports = <<>> /\ inlineModuleScripts = <<>> /\ inlineScripts = <<>>
    /\ entryContent = <<>> /\ bundledJs = <<>>
    /\ transformedHTML = <<>> /\ standaloneHTML = <<>>
    /\ ppc = "read"

\* buildPage, lines 203-239: the three extraction loops
ExtractScripts ==
    /\ ppc = "read"
    /\ moduleImports' = ExtractModuleImports(pageDir, htmlContent)
    /\ inlineModuleScripts' = ExtractInlineModuleScripts(ns, htmlContent)
    /\ inlineScripts' = ExtractInlineScripts(ns, htmlContent)
    /\ ppc' = "extracted"
    /\ UNCHANGED <<items, closed, css, htmlContent, entryContent, bundledJs,
                   transformedHTML, standaloneHTML, procVars, textVars, nameVars>>

\* buildPage, lines 241-282: the entry is put together (and written)
Synthesize ==
    /\ ppc = "extracted"
    /\ entryContent' = SynthesizeEntry(pageDir, moduleImports, inlineModuleScripts,
                                       inlineScripts)
    /\ ppc' = "entry"
    /\ UNCHANGED <<items, closed, css, htmlContent, moduleImports,
                   inlineModuleScripts, inlineScripts, bundledJs, transformedHTML,
                   standaloneHTML, procVars, textVars, nameVars>>

\* buildPage, lines 286-336: the entry is bundled into bundle.js, then the
\* linked HTML is put together (and written)
Assemble ==
    /\ ppc = "entry"
    /\ transformedHTML' = LinkedHTML(ns, htmlContent, css)
    /\ ppc' = "linked"
    /\ UNCHANGED <<items, closed, css, htmlContent, moduleImports,
                   inlineModuleScripts, inlineScripts, entryContent, bundledJs,
                   standaloneHTML, procVars, textVars, nameVars>>

\* buildPage, line 341: the text esbuild wrote to bundle.js is read back
ReadBundle ==
    /\ ppc = "linked"
    /\ bundledJs' \in Bundles
    /\ ppc' = "bundleRead"
    /\ UNCHANGED <<items, closed, css, htmlContent, moduleImports,
                   inlineModuleScripts, inlineScripts, entryContent, transformedHTML,
                   standaloneHTML, procVars, textVars, nameVars>>

\* buildPage, lines 344-349: the standalone HTML
Inline ==
    /\ ppc = "bundleRead"
    /\ standaloneHTML' = StandaloneHTML(transformedHTML, bundledJs)
    /\ ppc' = "standalone"
    /\ UNCHANGED <<items, closed, css, htmlContent, moduleImports,
                   inlineModuleScripts, inlineScripts, entryContent, bundledJs,
                   transformedHTML, procVars, textVars, nameVars>>

NextPage == ExtractScripts \/ Synthesize \/ Assemble \/ ReadBundle \/ Inline

SpecPage == InitPage /\ [][NextPage]_vars

\* ------------------------- one identifier through the three transforms

\* the longest identifier followed
MaxIdLen == 2

\* the characters identifiers are made of after their first letter (a letter,
\* a digit, "-" and "_"), and the letters they start with
NameChars == {"a", "1", "-", "_"}
IdFirst   == {"a", "B"}

\* the namespace tokens given as --namespace: made of the same characters,
\* some of them the start of an identifier or an identifier themselves
NameTokens  == {<<"a">>, <<"a","-">>, <<"a","1">>, <<"_","B">>, <<"1","-">>}
Identifiers == {<<c>> \o r : c \in IdFirst,
                             r \in UNION {[1..n -> NameChars] : n \in 0..(MaxIdLen - 1)}}

\* the DOM calls transformJavaScript rewrites, up to the identifier
JsCalls ==
    << <<"g","e","t","E","l","e","m","e","n","t","B","y","I","d","(","'">>, <<"q","u","e","r","y","S","e","l","e","c","t","o","r","(","'","#">>, <<"q","u","e","r","y","S","e","l","e","c","t","o","r","A","l","l","(","'","#">>,
       <<"q","u","e","r","y","S","e","l","e","c","t","o","r","(","'",".">>, <<"q","u","e","r","y","S","e","l","e","c","t","o","r","A","l","l","(","'",".">>, <<"c","l","a","s","s","L","i","s","t",".","a","d","d","(","'">>,
       <<"c","l","a","s","s","L","i","s","t",".","r","e","m","o","v","e","(","'">>, <<"c","l","a","s","s","L","i","s","t",".","t","o","g","g","l","e","(","'">>, <<"c","l","a","s","s","L","i","s","t",".","c","o","n","t","a","i","n","s","(","'">> >>

\* a script that names X in each of these calls
JsText(X) == Join([k \in 1..Len(JsCalls) |-> JsCalls[k] \o X \o <<"'",")">>], <<";">>)

\* markup with the id X and the class X, a rule for the class X
HtmlText(X) == <<"<","i"," ","i","d","=","\"">> \o X \o <<"\""," ","c","l","a","s","s","=","\"">> \o X \o <<"\"",">">>
CssText(X)  == <<".">> \o X \o <<"{","}">>

\* the attributes transformHTML rewrites, up to the identifier
HtmlPlaces == {<<" ","i","d","=","\"">>, <<" ","c","l","a","s","s","=","\"">>}

\* the text of s between the first before and the next after ("?" if none)
Between(s, before, after) ==
    LET a == Find(s, 1, before)
        e == Find(s, a + Len(before), after)
    IN  IF a = 0 \/ e = 0 THEN <<"?">> ELSE Slice(s, a + Len(before), e)

\* renamed with the names found at the places of N
Noted(N) ==
    [c \in DOMAIN renamed \cup DOMAIN N |-> IF c \in DOMAIN N THEN N[c] ELSE renamed[c]]

InitNames ==
    /\ ProcIdle
    /\ which = "none" /\ input = <<>> /\ once = <<>> /\ twice = <<>> /\ tpc = "off"
    /\ PageIdle
    /\ ns \in NameTokens
    /\ ident \in Identifiers
    /\ renamed = <<>>
    /\ npc = "names"

\* transformJavaScript on the script of the page (buildPage, lines 222 and 235)
RenameInJS ==
    /\ npc = "names"
    /\ LET out == transformJavaScript(ns, JsText(ident))
       IN  renamed' = Noted([c \in {JsCalls[k] : k \in 1..Len(JsCalls)} |->
                               Between(out, c, <<"'", ")">>)])
    /\ npc' = "js"
    /\ UNCHANGED <<ns, ident, which, input, once, twice, tpc, procVars, pageVars>>

\* transformHTML on the markup of the page (buildPage, line 304)
RenameInHTML ==
    /\ npc = "js"
    /\ LET out == transformHTML(ns, HtmlText(ident))
       IN  renamed' = Noted([c \in HtmlPlaces |->
                               Between(out, c, <<"\"">>)])
    /\ npc' = "html"
    /\ UNCHANGED <<ns, ident, which, input, once, twice, tpc, procVars, pageVars>>

\* transformCSS on the stylesheet (buildPage, line 310)
RenameInCSS ==
    /\ npc = "html"
    /\ LET out == transformCSS(ns, CssText(ident))
       IN  renamed' = Noted([c \in {<<".">>} |-> Between(out, c, <<"{">>)])
    /\ npc' = "css"
    /\ UNCHANGED <<ns, ident, which, input, once, twice, tpc, procVars, pageVars>>

NextNames == RenameInJS \/ RenameInHTML \/ RenameInCSS

SpecNames == InitNames /\ [][NextNames]_vars

\* ------------------------------------------------- the claims, under Spec

\* buildPage has returned or is propagating an error
AtExit == pc \in {"bp_return", "bp_throw"}

\* C1 as stated: whenever buildPage, having written the temp entry, returns or
\* propagates an error, temp-entry.js no longer exists, whichever step failed
\* (the removal itself included).
C1_TempGoneAtEveryExit == (AtExit /\ tempWritten) => tempFile = 0

\* C1 amended: whenever buildPage, having written the temp entry, returns or
\* propagates an error, temp-entry.js no longer exists, unless the removal in
\* the error handler itself threw (and then that is the error propagated).
C1_TempGoneUnlessRemovalThrows ==
    (AtExit /\ tempWritten) => (tempFile = 0 \/ err = "unlinkInCatch")

\* the bundling failed, the handler removed the temp entry, the error propagates
C1_Witness == pc = "bp_throw" /\ tempWritten /\ err = "bundle" /\ tempFile = 0

\* C2: whenever buildPage returns or propagates an error, the output directory
\* holds bundle.js, index.html and standalone.html of one and the same page
\* build, or none of the three.
C2_AllOrNothing ==
    AtExit => \/ \E p \in Pages : Triple(p)
              \/ bundleJs = 0 /\ indexHtml = 0 /\ standaloneHtml = 0

\* C3: when a batch run ends, main has returned without raising (no non-zero
\* exit), every discovered page was attempted, every page whose build did not
\* fail had its complete triple in place when its build returned, and every
\* page whose build failed was reported.
C3_BatchIsolation ==
    (allFlag /\ pc \in {"done", "exited"}) =>
        /\ pc = "done" /\ exitCode = 0
        /\ attempted = 1..pagesOnDisk
        /\ \A p \in 1..pagesOnDisk :
              /\ cause[p] = "none" => p \in produced
              /\ cause[p] # "none" => p \in reported

\* three pages, the second fails bundling, the first and third are produced
C3_Witness ==
    /\ allFlag /\ pc = "done" /\ pagesOnDisk = 3
    /\ cause[2] = "bundle" /\ reported = {2} /\ produced = {1, 3}

\* a configuration error: no namespace, or in single-page mode no input path
\* or one that names no file
ConfigError == ~nsGiven \/ (~allFlag /\ (~htmlGiven \/ ~htmlExists))

\* C4: with a configuration error nothing is ever created or written, and
\* once the arguments are read the process has exited with status 1.
C4_ConfigErrorFatal ==
    ConfigError => /\ ~mutated
                   /\ pc \notin {"start", "main"} => (pc = "exited" /\ exitCode = 1)

\* --------------------------------------------- the claims, under SpecText

\* C5: each of transformHTML, transformCSS and transformJavaScript is
\* idempotent: for every namespace token ns and every text t, the transform
\* applied to its own output gives that output again.
C5_Idempotent == tpc = "twice" => twice = once

\* the start tags <T ...> of the elements T in the text s: where they begin
StartTags(T, s) ==
    {i \in 1..Len(s) : /\ HasAt(s, i, <<"<">> \o T)
                       /\ i + Len(T) + 1 <= Len(s)
                       /\ s[i + Len(T) + 1] \in WS \cup {">", "/"}
                       /\ SkipTo(s, i + 1, {"<", ">"}) <= Len(s)
                       /\ s[SkipTo(s, i + 1, {"<", ">"})] = ">"}

\* the class tokens of the start tag that begins at position i of s
ClassTokens(s, i) ==
    LET tag == Slice(s, i, SkipTo(s, i, {">"}))
        c   == Find(tag, 1, <<" ","c","l","a","s","s","=">>)
    IN  IF c = 0 \/ c + 7 > Len(tag) THEN {}
        ELSE IF tag[c + 7] \notin Quote THEN {}
        ELSE LET v  == Slice(tag, c + 8, SkipTo(tag, c + 8, {tag[c + 7]}))
                 ts == SplitWS(v)
             IN  {ts[k] : k \in 1..Len(ts)}

\* transformCSS rewrites the bare selector T to the class selector .<n>T
CssRewrites(n, T) ==
    Includes(transformCSS(n, T \o <<"{", "}">>), <<".">> \o n \o T \o <<"{">>)

\* C6: for every global tag T that transformCSS rewrites to .<ns>T, every
\* element <T ...> in the output of transformHTML carries the class <ns>T,
\* whether it had no class attribute or one with other classes.
C6_TagClassConsistency ==
    (which = "html" /\ tpc # "input") =>
        \A k \in 1..Len(globalTags) :
            \A i \in StartTags(globalTags[k], once) :
                CssRewrites(ns, globalTags[k]) =>
                    (ns \o globalTags[k]) \in ClassTokens(once, i)

\* the output the documentation gives for cssExample under namespace acme-
cssExpected == <<".","a","c","m","e","-","b","o","d","y"," ","{"," ","c","o","l","o","r",":"," ","r","e","d",";"," ","}"," ",".","a","c","m","e","-","c","a","r","d",":","h","o","v","e","r"," ","{"," ","c","o","l","o","r",":"," ","b","l","u","e",";"," ","}">>

\* the white space of a text, in order
Blanks(s) == SelectSeq(s, LAMBDA c : c \in WS)

\* C10: transformCSS only rewrites selectors, every other character of the
\* stylesheet stays (so its white space does), and cssExample under the
\* namespace acme- yields exactly cssExpected.
C10_OnlySelectorsRewritten ==
    (which = "css" /\ tpc # "input") =>
        /\ Blanks(once) = Blanks(input)
        /\ (ns = <<"a","c","m","e","-">> /\ input = cssExample) => once = cssExpected

\* --------------------------------------------- the claims, under SpecPage

\* the external modules of the page by their attributes (type="module" and a
\* src), in document order, as resolved paths
TrueModuleImports ==
    LET sel == SelectSeq(items, LAMBDA k : IsModule(k) /\ SrcOf(k) # <<>>)
    IN  [j \in 1..Len(sel) |-> PathResolve(pageDir, SrcOf(sel[j]))]

\* the inline scripts of the page by their attributes (no src, a body that is
\* not blank), modules or classic ones, in document order, as transformed bodies
TrueInline(module) ==
    LET sel == SelectSeq(items, LAMBDA k : /\ IsScript(k) /\ SrcOf(k) = <<>>
                                           /\ IsModule(k) = module
                                           /\ Trim(Body(k)) # <<>>)
    IN  [j \in 1..Len(sel) |-> transformJavaScript(ns, Trim(Body(sel[j])))]

\* C7: the linked HTML holds no script element other than exactly one
\* reference to the bundle, and that one sits right before </body>.
C7_OnlyTheBundleReference ==
    ppc \in {"linked", "bundleRead", "standalone"} =>
        LET at == {i \in 1..Len(transformedHTML) : HasAtCI(transformedHTML, i, s_script)}
        IN  /\ Cardinality(at) = 1
            /\ \A i \in at : HasAt(transformedHTML, i, s_bundleRef \o <<"\n">> \o s_endbody)

\* C8: whatever script elements the page holds and however they interleave,
\* the entry is the re-exports of all its external modules in document order,
\* then all its inline module bodies in document order, then one closure
\* holding all its inline classic script bodies in document order.
C8_EntryOrder ==
    ppc \in {"entry", "linked", "bundleRead", "standalone"} =>
        entryContent = SynthesizeEntry(pageDir, TrueModuleImports, TrueInline(TRUE),
                                       TrueInline(FALSE))

\* C9: a script element is inline by its attributes only: each one without
\* src and with a body that is not blank is once in the inline sequence of its
\* kind whatever its body holds, and no element with a src is in either.
C9_InlineByAttributesOnly ==
    ppc \notin {"off", "read"} =>
        /\ inlineModuleScripts = TrueInline(TRUE)
        /\ inlineScripts = TrueInline(FALSE)

\* the text html with its (first) bundle reference replaced by a script
\* element that holds the text b as it is
InlinedVerbatim(html, b) ==
    LET at == Find(html, 1, s_bundleRef)
    IN  IF at = 0 THEN html
        ELSE Slice(html, 1, at) \o <<"<","s","c","r","i","p","t",">","\n">> \o b \o <<"\n","<","/","s","c","r","i","p","t",">">>
             \o Slice(html, at + Len(s_bundleRef), Len(html) + 1)

\* C11: the standalone HTML is the linked HTML with the bundle reference
\* replaced by a script element whose content is the bundle's text character
\* for character, and is the linked HTML everywhere else.
C11_BundleInlinedVerbatim ==
    ppc = "standalone" => standaloneHTML = InlinedVerbatim(transformedHTML, bundledJs)

\* ------------------------------------------- the claims, under SpecNames

\* C12: the three transforms agree on the renaming of an identifier X: the
\* name transformHTML gives to id X and to class token X, the name
\* transformJavaScript writes into getElementById, querySelector(All) with #
\* and with ., and classList.add/remove/toggle/contains, and the name
\* transformCSS writes for the selector .X are one and the same name, and each
\* of these places is found in the output.
C12_SameNameEverywhere ==
    \A c \in DOMAIN renamed :
        /\ renamed[c] # <<"?">>
        /\ \A d \in DOMAIN renamed : renamed[c] = renamed[d]

\* the identifier B1 under the namespace a- is a-B1 at all twelve places
C12_Witness ==
    /\ npc = "css" /\ ns = <<"a","-">> /\ ident = <<"B","1">>
    /\ Cardinality(DOMAIN renamed) = Len(JsCalls) + 3
    /\ \A c \in DOMAIN renamed : renamed[c] = <<"a","-","B","1">>

====
